---- MODULE Spec2Model ----
(***************************************************************************)
(* A model of the DeepSeek repository helper scripts: the path resolver    *)
(* (RepoManager), the parallel and the sequential downloader, the bundle   *)
(* extractors and the account cleaner.  Strings that the code transforms   *)
(* (identifiers, file names, the confirmation phrase) are sequences of     *)
(* one-character strings, so that replace/lower/endswith are computed.     *)
(***************************************************************************)
EXTENDS Integers, Sequences, FiniteSets, TLC

(***************************************************************************)
(* Bounds of the model.                                                    *)
(***************************************************************************)
\* longest owner and longest name of a drawn identifier
MaxLen == 2
\* repositories the remote lists
MaxRepos == 2
\* largest --workers value
MaxWorkers == 2
\* times a script is started
MaxRuns == 2
\* repositories of the pool that may be on the remote
MaxRemote == 3

\* clean_hf_account.py: for attempt in range(3)
MaxAttempts == 3

(***************************************************************************)
(* String helpers: Python's str.replace, str.endswith, PurePath.stem.      *)
(***************************************************************************)
Bundle == <<".", "b", "u", "n", "d", "l", "e">>

\* s.replace(a, b) for one-character a and b
ReplaceChar(s, a, b) == [i \in DOMAIN s |-> IF s[i] = a THEN b ELSE s[i]]

\* s.endswith(suf)
EndsWith(s, suf) ==
    /\ Len(s) >= Len(suf)
    /\ SubSeq(s, Len(s) - Len(suf) + 1, Len(s)) = suf

\* s.replace(sub, ''): every non-overlapping occurrence, left to right
RECURSIVE RemoveAll(_, _)
RemoveAll(s, sub) ==
    IF Len(s) < Len(sub) THEN s
    ELSE IF SubSeq(s, 1, Len(sub)) = sub
         THEN RemoveAll(SubSeq(s, Len(sub) + 1, Len(s)), sub)
         ELSE <<Head(s)>> \o RemoveAll(Tail(s), sub)

\* sub in s
Contains(s, sub) ==
    \E i \in 1..(Len(s) - Len(sub) + 1) : SubSeq(s, i, i + Len(sub) - 1) = sub

\* PurePath(name).stem: the name without its last suffix
Stem(name) ==
    LET dots == {i \in 2..Len(name) : name[i] = "."}
    IN  IF dots = {} \/ name[Len(name)] = "." THEN name
        ELSE SubSeq(name, 1, (CHOOSE i \in dots : \A j \in dots : j <= i) - 1)

(***************************************************************************)
(* The path resolver.  A path is <<directory, file name>>; the directories *)
(* are fixed per RepoManager and a slug never holds a separator, so        *)
(* os.path.join and os.path.normpath add nothing to the file name.         *)
(***************************************************************************)
\* the owner part of owner/name
Owner(repo_id) ==
    SubSeq(repo_id, 1, (CHOOSE i \in DOMAIN repo_id : repo_id[i] = "/") - 1)

\* mutant: repo_id.split('/')[0] taken as the file name
Slug_OwnerOnly(repo_id) == Owner(repo_id)

\* repo_id.replace('/', '_')
Slug(repo_id) == ReplaceChar(repo_id, "/", "_")

get_archive_path(repo_id) == <<"archives", Slug(repo_id) \o Bundle>>

get_extraction_path(repo_id) == <<"extracted", Slug(repo_id)>>

\* mutant: the separator is not put back
get_downloaded_repos_NoSlash(names) ==
    {RemoveAll(f, Bundle) : f \in {g \in names : EndsWith(g, Bundle)}}

\* utils.common.RepoManager.get_downloaded_repos over the names of a directory
get_downloaded_repos(names) ==
    {ReplaceChar(RemoveAll(f, Bundle), "_", "/") : f \in {g \in names : EndsWith(g, Bundle)}}

\* scripts.common.RepoManager.get_downloaded_repos: glob("*.bundle") stems
get_downloaded_stems(names) ==
    {Stem(f) : f \in {g \in names : EndsWith(g, Bundle)}}

(***************************************************************************)
(* Identifiers of the form owner/name.                                     *)
(***************************************************************************)
IdChars == {"a", "_"}

Words == UNION {[1..n -> IdChars] : n \in 1..MaxLen}

\* names also include one that holds the text ".bundle"
RepoNames == Words \cup {<<"a">> \o Bundle}

Identifiers == {o \o <<"/">> \o n : o \in Words, n \in RepoNames}

\* the listing of the author's models, in the order the remote returns it
RepoPool ==
    << <<"d", "/", "a">>, <<"d", "/", "b">>, <<"d", "/", "a", "_", "b">>, <<"d", "/", "c">> >>

Repos == {RepoPool[i] : i \in 1..MaxRepos}

Index(repo_id) == CHOOSE i \in 1..MaxRepos : RepoPool[i] = repo_id

MetaJson == <<".", "m", "e", "t", "a", ".", "j", "s", "o", "n">>

TarGz == <<".", "t", "a", "r", ".", "g", "z">>

Tmp == <<".", "t", "m", "p">>

\* output_path.with_suffix(output_path.suffix + '.meta.json'), and
\* get_archive_path(repo_id) + ".meta.json" in main: the same file
metadata_path(repo_id) == <<"archives", Slug(repo_id) \o Bundle \o MetaJson>>

\* the sequential script: os.path.join(output_dir, repo_id.replace('/', '_') + '.tar.gz')
output_path(repo_id) == <<"deepseek_repos", Slug(repo_id) \o TarGz>>

\* mutant: the body is written to the final path itself
temp_file_InPlace(repo_id) == output_path(repo_id)

\* output_path + '.tmp'
temp_file(repo_id) == <<"deepseek_repos", Slug(repo_id) \o TarGz \o Tmp>>

(***************************************************************************)
(* The file system: a function from the paths that exist to their content. *)
(***************************************************************************)
exists(fs, p) == p \in DOMAIN fs

write(fs, p, content) == [q \in DOMAIN fs \cup {p} |-> IF q = p THEN content ELSE fs[q]]

unlink(fs, p) == [q \in DOMAIN fs \ {p} |-> fs[q]]

\* if p.exists(): p.unlink()
unlink_if_exists(fs, p) == IF exists(fs, p) THEN unlink(fs, p) ELSE fs

\* os.replace(src, dst)
replace(fs, src, dst) == unlink(write(fs, dst, fs[src]), src)

VARIABLES
    ids,        \* the two identifiers the resolver is applied to
    stored,     \* which of the two have their archive stored
    names,      \* file names in the archive directory of the resolver run
    listed,     \* <<utils get_downloaded_repos() result>>, << >> before the call
    stems,      \* <<scripts get_downloaded_repos() result>>, << >> before the call
    script,     \* the script being run
    args,       \* its command line
    listing,    \* what became of the start: "none", "no_git", "failed", "empty", "listed"
    run,        \* how many times it was started
    files,      \* the file system
    mainpc,     \* position of the script's main
    pc,         \* per repository: position of its download_repo call
    results,    \* per repository: << >>, or the <<success, repo_id>> of its call
    prev,       \* per repository: the results of the run before
    temp_path,  \* per repository: download_repo's scratch directory exists
    temp_dir,   \* per repository: download_repository's scratch directory exists
    created,    \* per repository: the call created a scratch directory
    outcome,    \* per repository: how download_repo ended: "none", "True", "False", "raised"
    ops,        \* per repository: external commands and requests of the call
    collected,  \* futures whose result main has taken
    successful, failed, lfs_repos,  \* main's counters
    exit_code,  \* exit status of the script, -1 while it runs
    confirmation,   \* the phrase typed at the prompt
    token_user,     \* the account the token belongs to
    remote,         \* the repositories on the remote: [owner, name, type]
    delpc,          \* position of delete_all_repos
    total_repos,    \* its list of (name, type) to delete
    item,           \* index of the list entry in work
    attempt,        \* the attempt number of the entry in work
    calls,          \* per list entry: delete_repo calls made for it
    deleted,        \* remote repositories that delete_repo removed
    gave_up,        \* list entries whose three attempts all failed
    report,         \* the final message: "none", "aborted", "nothing", "cleaned", "warning"
    archives,       \* names of the files in the archive directory of the extractors
    extracted,      \* the extraction directory: directory name -> "empty", "cloned", "tree"
    exscript,       \* the extractor that runs or ran last
    exrun,          \* how many extractor runs were started
    expc,           \* "idle", "loop", "summary", "exit", "crashed"
    todo,           \* identifiers the loop has still to process
    error,          \* the exception that ended the run, or "none"
    ex_successful, ex_failed, ex_skipped, not_found,  \* the counters of the loop
    git_runs,       \* git commands run by the extractors
    extractions,    \* per directory name: successful clones into it
    \* ---- the verification scripts
    vdir,           \* the archive directory they read: path -> [ok], ok = passes git bundle verify
    vscript,        \* "verify_repos", "verify_archives" or "none"
    vpc,            \* "idle", "loop", "summary", "crashed"
    vtodo,          \* file names of the listing not yet verified
    vresults,       \* results of verify_repos.main: valid, invalid, missing, lfs_repos
    vlog,           \* what verify_repository returned, per call
    va_missing,     \* verify_archives: bundles reported without LFS bundle
    va_report,      \* verify_archives: "failed", "complete" or "none"
    \* ---- scripts/mirror_repos.py
    mtarget0,       \* the target account before the run: <<type, repo_id>> -> [refs, lfs]
    mtarget,        \* the target account
    mpc,            \* "idle", "clean_list", "clean", "mirror", "done", "crashed"
    mlisted,        \* models: the source listing, << >> before it is made
    mclean,         \* clean_existing_repos: listed target models not yet visited
    mdeleted,       \* <<type, repo_id>> of the repositories delete_repo removed
    mindex,         \* position of the mirror loop in mlisted
    mstep,          \* the step the loop is at for that repository
    mtrace,         \* per source repository: the steps run, each with its success
    mlog,           \* source repositories logged with "Failed to mirror"
    \* ---- repo_sizes.py and the listing of download_deepseek_repos.py
    sremote,        \* the models the remote lists for the author, with their sizes
    sscript,        \* "repo_sizes", "download_deepseek_repos" or "none"
    sargs,          \* [sort, list, top]
    spc,            \* "start", "fetch", "sort", "print", "download", "done", "exit"
    srepos,         \* repos / repo_sizes: the list in work
    sfetched,       \* how many entries of the listing had their size asked for
    sshown,         \* the rows printed, in order
    sprocessed,     \* the modelIds handed to download_repo, in order
    sfailed,        \* failed downloads
    sexit           \* exit status, -1 while running

pathVars == <<ids, stored, names, listed, stems>>

dlVars == <<script, args, listing, run, files, mainpc, pc, results, prev, temp_path, temp_dir,
            created, outcome, ops, collected, successful, failed, lfs_repos, exit_code>>

delVars == <<confirmation, token_user, remote, delpc, total_repos, item, attempt, calls,
             deleted, gave_up, report>>

exVars == <<archives, extracted, exscript, exrun, expc, todo, error, ex_successful,
            ex_failed, ex_skipped, not_found, git_runs, extractions>>

verVars == <<vdir, vscript, vpc, vtodo, vresults, vlog, va_missing, va_report>>

\* the state of the verification, mirror and size scripts
mirVars == <<mtarget0, mtarget, mpc, mlisted, mclean, mdeleted, mindex, mstep, mtrace, mlog>>

sizeVars == <<sremote, sscript, sargs, spc, srepos, sfetched, sshown, sprocessed, sfailed, sexit>>

toolVars == <<verVars, mirVars, sizeVars>>

vars == <<pathVars, dlVars, delVars, exVars, toolVars>>

(***************************************************************************)
(* Resolver run: archives of the two identifiers are stored at their       *)
(* archive paths, then the directory is listed back.                       *)
(***************************************************************************)
PathsIdle ==
    /\ ids = << >>
    /\ stored = {}
    /\ names = {}
    /\ listed = << >>
    /\ stems = << >>

DlIdle ==
    /\ script = "none"
    /\ args = << >>
    /\ listing = "none"
    /\ run = 0
    /\ files = << >>
    /\ mainpc = "exit"
    /\ pc = << >>
    /\ results = << >>
    /\ prev = << >>
    /\ temp_path = << >>
    /\ temp_dir = << >>
    /\ created = << >>
    /\ outcome = << >>
    /\ ops = << >>
    /\ collected = {}
    /\ successful = 0
    /\ failed = 0
    /\ lfs_repos = 0
    /\ exit_code = -1

DelIdle ==
    /\ confirmation = << >>
    /\ token_user = "none"
    /\ remote = {}
    /\ delpc = "idle"
    /\ total_repos = << >>
    /\ item = 0
    /\ attempt = 0
    /\ calls = << >>
    /\ deleted = {}
    /\ gave_up = {}
    /\ report = "none"

ExIdle ==
    /\ archives = {}
    /\ extracted = << >>
    /\ exscript = "none"
    /\ exrun = 0
    /\ expc = "idle"
    /\ todo = {}
    /\ error = "none"
    /\ ex_successful = 0
    /\ ex_failed = 0
    /\ ex_skipped = 0
    /\ not_found = 0
    /\ git_runs = 0
    /\ extractions = << >>

VerIdle ==
    /\ vdir = << >>
    /\ vscript = "none"
    /\ vpc = "idle"
    /\ vtodo = {}
    /\ vresults = << >>
    /\ vlog = << >>
    /\ va_missing = {}
    /\ va_report = "none"

MirIdle ==
    /\ mtarget0 = << >>
    /\ mtarget = << >>
    /\ mpc = "idle"
    /\ mlisted = << >>
    /\ mclean = {}
    /\ mdeleted = {}
    /\ mindex = 0
    /\ mstep = "none"
    /\ mtrace = << >>
    /\ mlog = {}

SizeIdle ==
    /\ sremote = << >>
    /\ sscript = "none"
    /\ sargs = << >>
    /\ spc = "idle"
    /\ srepos = << >>
    /\ sfetched = 0
    /\ sshown = << >>
    /\ sprocessed = << >>
    /\ sfailed = 0
    /\ sexit = -1

ToolsIdle == VerIdle /\ MirIdle /\ SizeIdle

PathsInit ==
    /\ ids \in Identifiers \X Identifiers
    /\ stored = {}
    /\ names = {}
    /\ listed = << >>
    /\ stems = << >>
    /\ DlIdle
    /\ DelIdle
    /\ ExIdle
    /\ ToolsIdle

\* a bundle is written at get_archive_path(ids[i])
StoreArchive(i) ==
    /\ listed = << >>
    /\ i \notin stored
    /\ stored' = stored \cup {i}
    /\ names' = names \cup {get_archive_path(ids[i])[2]}
    /\ UNCHANGED <<ids, listed, stems, dlVars, delVars, exVars, toolVars>>

ListDownloaded ==
    /\ listed = << >>
    /\ listed' = <<get_downloaded_repos(names)>>
    /\ stems' = <<get_downloaded_stems(names)>>
    /\ UNCHANGED <<ids, stored, names, dlVars, delVars, exVars, toolVars>>

PathsNext ==
    \/ \E i \in 1..2 : StoreArchive(i)
    \/ ListDownloaded

SpecPaths == PathsInit /\ [][PathsNext]_vars

(***************************************************************************)
(* The download scripts.  A behaviour runs one of them, MaxRuns times at   *)
(* most, on the files the runs before left.                                *)
(***************************************************************************)
Fresh ==
    /\ mainpc' = "list"
    /\ listing' = "none"
    /\ pc' = [r \in Repos |-> "idle"]
    /\ results' = [r \in Repos |-> << >>]
    /\ temp_path' = [r \in Repos |-> FALSE]
    /\ temp_dir' = [r \in Repos |-> FALSE]
    /\ created' = [r \in Repos |-> FALSE]
    /\ outcome' = [r \in Repos |-> "none"]
    /\ ops' = [r \in Repos |-> {}]
    /\ collected' = {}
    /\ successful' = 0
    /\ failed' = 0
    /\ lfs_repos' = 0
    /\ exit_code' = -1

DlInit ==
    /\ PathsIdle
    /\ DelIdle
    /\ ExIdle
    /\ ToolsIdle
    /\ \/ /\ script = "download_repos"
          /\ args \in [workers : 1..MaxWorkers, force : {FALSE}, list : {FALSE}]
       \/ /\ script = "download_deepseek_repos"
          /\ args \in [workers : {1}, force : BOOLEAN, list : BOOLEAN]
    /\ listing = "none"
    /\ run = 1
    /\ files = << >>
    /\ mainpc = "list"
    /\ pc = [r \in Repos |-> "idle"]
    /\ results = [r \in Repos |-> << >>]
    /\ prev = [r \in Repos |-> << >>]
    /\ temp_path = [r \in Repos |-> FALSE]
    /\ temp_dir = [r \in Repos |-> FALSE]
    /\ created = [r \in Repos |-> FALSE]
    /\ outcome = [r \in Repos |-> "none"]
    /\ ops = [r \in Repos |-> {}]
    /\ collected = {}
    /\ successful = 0
    /\ failed = 0
    /\ lfs_repos = 0
    /\ exit_code = -1

\* the script is started again
Rerun ==
    /\ mainpc \in {"summary", "exit", "crashed"}
    /\ run < MaxRuns
    /\ run' = run + 1
    /\ prev' = results
    /\ Fresh
    /\ UNCHANGED <<script, args, files, pathVars, toolVars, delVars, exVars>>

(***************************************************************************)
(* scripts/download_repos.py: the parallel downloader.                     *)
(***************************************************************************)
\* mutant: the scratch directory is made with mkdtemp and never removed
TemporaryDirectory_exit_Leak(dir_exists) == dir_exists

\* leaving a "with tempfile.TemporaryDirectory()" block removes the directory
TemporaryDirectory_exit(dir_exists) == FALSE

\* safe_delete(path): nothing when the path does not exist, else it is removed
safe_delete(path_exists) == IF ~path_exists THEN FALSE ELSE FALSE

\* mutant: the bundle is left behind when its creation failed
bundle_failed_NoUnlink(fs, repo_id) == fs

\* download_repository's except branch: a bundle that exists is unlinked
bundle_failed(fs, repo_id) == unlink_if_exists(fs, get_archive_path(repo_id))

\* mutant: the except branch forgets the archive
handle_exception_KeepArchive(fs, repo_id) == unlink_if_exists(fs, metadata_path(repo_id))

\* download_repo's except branch: archive and metadata are unlinked if they exist
handle_exception(fs, repo_id) ==
    unlink_if_exists(unlink_if_exists(fs, get_archive_path(repo_id)), metadata_path(repo_id))

\* mutant: the wrapper lets the exception through into the future
download_repo_wrapper_NoCatch(repo_id, out) ==
    IF out = "raised" THEN <<"exception">> ELSE <<out = "True", repo_id>>

\* download_repo_wrapper: (result, repo_id), and (False, repo_id) for an exception
download_repo_wrapper(repo_id, out) ==
    IF out = "raised" THEN <<FALSE, repo_id>> ELSE <<out = "True", repo_id>>

\* mutant: download_repo without the check for an existing archive
already_downloaded_Never(fs, repo_id) == FALSE

\* download_repo: output_path.exists()
already_downloaded(fs, repo_id) == exists(fs, get_archive_path(repo_id))

running(r) == pc[r] \notin {"idle", "queued", "done"}

\* download_repo ends with `out`; both scratch directories are released
Finish(r, out) ==
    /\ pc' = [pc EXCEPT ![r] = "done"]
    /\ outcome' = [outcome EXCEPT ![r] = out]
    /\ results' = [results EXCEPT ![r] = download_repo_wrapper(r, out)]
    /\ temp_dir' = [temp_dir EXCEPT ![r] = TemporaryDirectory_exit(@)]
    /\ temp_path' = [temp_path EXCEPT ![r] = safe_delete(TemporaryDirectory_exit(@))]

Did(r, op) == ops' = [ops EXCEPT ![r] = @ \cup {op}]

\* ensure_dependencies, get_deepseek_repos and the submit loop
\* mutant: the summary always ends with status zero
summary_exit_AlwaysZero(name, n_failed) == 0

\* the exit status after the summary: download_deepseek_repos calls
\* sys.exit(1) when a download failed, download_repos just returns
summary_exit(name, n_failed) ==
    IF name = "download_deepseek_repos" /\ n_failed > 0 THEN 1 ELSE 0

\* mutant: a failed listing is fatal in either script
listing_failed_Fatal(name, what) == 1

\* the exit status after get_deepseek_repos failed (or found nothing): the
\* parallel script returns [] and main returns; the sequential script calls
\* sys.exit(1) in the except branch
listing_failed(name, what) ==
    IF name = "download_deepseek_repos" /\ what = "failed" THEN 1 ELSE 0

ParList ==
    /\ script = "download_repos"
    /\ mainpc = "list"
    /\ \/ \* git is not installed: sys.exit(1)
          /\ mainpc' = "exit"
          /\ exit_code' = 1
          /\ listing' = "no_git"
          /\ pc' = pc
       \/ \* the listing failed, or it is empty: return
          /\ \E what \in {"failed", "empty"} :
                /\ listing' = what
                /\ mainpc' = "exit"
                /\ exit_code' = listing_failed(script, what)
          /\ pc' = pc
       \/ /\ mainpc' = "collect"
          /\ exit_code' = exit_code
          /\ listing' = "listed"
          /\ pc' = [r \in Repos |-> "queued"]
    /\ UNCHANGED <<script, args, run, files, results, prev, temp_path, temp_dir, created,
                   outcome, ops, collected, successful, failed, lfs_repos, pathVars, toolVars, delVars, exVars>>

\* a pool thread takes the next submitted task; download_repo up to the skip
DlStart(r) ==
    /\ script = "download_repos"
    /\ mainpc = "collect"
    /\ pc[r] = "queued"
    /\ Cardinality({q \in Repos : running(q)}) < args.workers
    /\ \A q \in Repos : Index(q) < Index(r) => pc[q] # "queued"
    /\ IF already_downloaded(files, r)
       THEN Finish(r, "True")
       ELSE /\ pc' = [pc EXCEPT ![r] = "mktemp"]
            /\ UNCHANGED <<outcome, results, temp_dir, temp_path>>
    /\ UNCHANGED <<script, args, listing, run, files, mainpc, prev, created, ops, collected,
                   successful, failed, lfs_repos, exit_code, pathVars, toolVars, delVars, exVars>>

\* with tempfile.TemporaryDirectory() as temp_dir
DlMkTemp(r) ==
    /\ script = "download_repos"
    /\ pc[r] = "mktemp"
    /\ \/ /\ pc' = [pc EXCEPT ![r] = "clone"]
          /\ temp_path' = [temp_path EXCEPT ![r] = TRUE]
          /\ created' = [created EXCEPT ![r] = TRUE]
          /\ UNCHANGED <<outcome, results, temp_dir, files>>
       \/ \* no directory: the except branch runs, then finally reads the
          \* unbound temp_path and the UnboundLocalError leaves download_repo
          /\ files' = handle_exception(files, r)
          /\ Finish(r, "raised")
          /\ UNCHANGED created
    /\ UNCHANGED <<script, args, listing, run, mainpc, prev, ops, collected, successful, failed,
                   lfs_repos, exit_code, pathVars, toolVars, delVars, exVars>>

\* git clone into the scratch directory, and the .git check
DlClone(r) ==
    /\ script = "download_repos"
    /\ pc[r] = "clone"
    /\ Did(r, "clone")
    /\ \/ /\ pc' = [pc EXCEPT ![r] = "bundle_tmp"]
          /\ UNCHANGED <<outcome, results, temp_dir, temp_path, files>>
       \/ /\ files' = handle_exception(files, r)
          /\ Finish(r, "False")
    /\ UNCHANGED <<script, args, listing, run, mainpc, prev, created, collected, successful, failed,
                   lfs_repos, exit_code, pathVars, toolVars, delVars, exVars>>

\* download_repository: its own scratch directory
DlBundleTemp(r) ==
    /\ script = "download_repos"
    /\ pc[r] = "bundle_tmp"
    /\ \/ /\ pc' = [pc EXCEPT ![r] = "bare_clone"]
          /\ temp_dir' = [temp_dir EXCEPT ![r] = TRUE]
          /\ UNCHANGED <<outcome, results, temp_path, files>>
       \/ /\ files' = handle_exception(files, r)
          /\ Finish(r, "False")
    /\ UNCHANGED <<script, args, listing, run, mainpc, prev, created, ops, collected, successful,
                   failed, lfs_repos, exit_code, pathVars, toolVars, delVars, exVars>>

\* download_repository: git clone --bare and git symbolic-ref
DlBareClone(r) ==
    /\ script = "download_repos"
    /\ pc[r] = "bare_clone"
    /\ Did(r, "bare_clone")
    /\ \/ /\ pc' = [pc EXCEPT ![r] = "bundle_create"]
          /\ UNCHANGED <<outcome, results, temp_dir, temp_path, files>>
       \/ /\ files' = bundle_failed(files, r)
          /\ Finish(r, "False")
    /\ UNCHANGED <<script, args, listing, run, mainpc, prev, created, collected, successful, failed,
                   lfs_repos, exit_code, pathVars, toolVars, delVars, exVars>>

\* download_repository: git bundle create
DlBundleCreate(r) ==
    /\ script = "download_repos"
    /\ pc[r] = "bundle_create"
    /\ Did(r, "bundle")
    /\ \/ /\ files' = write(files, get_archive_path(r), [kind |-> "bundle", run |-> run])
          /\ pc' = [pc EXCEPT ![r] = "metadata"]
          /\ temp_dir' = [temp_dir EXCEPT ![r] = TemporaryDirectory_exit(@)]
          /\ UNCHANGED <<outcome, results, temp_path>>
       \/ \E partial \in BOOLEAN :
          /\ files' = bundle_failed(IF partial
                                    THEN write(files, get_archive_path(r), [kind |-> "partial"])
                                    ELSE files, r)
          /\ Finish(r, "False")
    /\ UNCHANGED <<script, args, listing, run, mainpc, prev, created, collected, successful, failed,
                   lfs_repos, exit_code, pathVars, toolVars, delVars, exVars>>

\* the metadata is generated and written
DlMetadata(r) ==
    /\ script = "download_repos"
    /\ pc[r] = "metadata"
    /\ Did(r, "hf_api")
    /\ \/ \* stat, hash or git --version raises
          /\ files' = handle_exception(files, r)
          /\ Finish(r, "False")
       \/ \* json.dump raises on the opened file
          /\ files' = handle_exception(write(files, metadata_path(r), [kind |-> "partial"]), r)
          /\ Finish(r, "False")
       \/ \E has_lfs \in BOOLEAN :
          /\ files' = write(files, metadata_path(r),
                            [kind |-> "meta", repo_id |-> r, has_lfs |-> has_lfs])
          /\ Finish(r, "True")
    /\ UNCHANGED <<script, args, listing, run, mainpc, prev, created, collected, successful, failed,
                   lfs_repos, exit_code, pathVars, toolVars, delVars, exVars>>

\* main's loop over as_completed(futures)
ParCollect(r) ==
    /\ script = "download_repos"
    /\ mainpc = "collect"
    /\ pc[r] = "done"
    /\ r \notin collected
    /\ collected' = collected \cup {r}
    /\ IF Len(results[r]) # 2
       THEN \* future.result() raises the worker's exception
            /\ mainpc' = "crashed"
            /\ exit_code' = 1
            /\ UNCHANGED <<successful, failed, lfs_repos>>
       ELSE IF results[r][1]
       THEN LET meta_path == metadata_path(results[r][2])
            IN  /\ successful' = successful + 1
                /\ failed' = failed
                /\ IF ~exists(files, meta_path)
                   THEN UNCHANGED <<lfs_repos, mainpc, exit_code>>
                   ELSE IF files[meta_path].kind # "meta"
                   THEN \* json.load raises
                        /\ mainpc' = "crashed"
                        /\ exit_code' = 1
                        /\ lfs_repos' = lfs_repos
                   ELSE /\ lfs_repos' = lfs_repos + (IF files[meta_path].has_lfs THEN 1 ELSE 0)
                        /\ UNCHANGED <<mainpc, exit_code>>
       ELSE /\ failed' = failed + 1
            /\ UNCHANGED <<successful, lfs_repos, mainpc, exit_code>>
    /\ UNCHANGED <<script, args, listing, run, files, pc, results, prev, temp_path, temp_dir, created,
                   outcome, ops, pathVars, toolVars, delVars, exVars>>

\* the download summary
ParSummary ==
    /\ script = "download_repos"
    /\ mainpc = "collect"
    /\ collected = Repos
    /\ mainpc' = "summary"
    /\ exit_code' = summary_exit(script, failed)
    /\ UNCHANGED <<script, args, listing, run, files, pc, results, prev, temp_path, temp_dir, created,
                   outcome, ops, collected, successful, failed, lfs_repos, pathVars, toolVars, delVars, exVars>>

ParNext ==
    \/ ParList
    \/ \E r \in Repos : DlStart(r)
    \/ \E r \in Repos : DlMkTemp(r)
    \/ \E r \in Repos : DlClone(r)
    \/ \E r \in Repos : DlBundleTemp(r)
    \/ \E r \in Repos : DlBareClone(r)
    \/ \E r \in Repos : DlBundleCreate(r)
    \/ \E r \in Repos : DlMetadata(r)
    \/ \E r \in Repos : ParCollect(r)
    \/ ParSummary

(***************************************************************************)
(* download_deepseek_repos.py: the sequential downloader.                  *)
(***************************************************************************)
\* download_repo ends with `out`; main counts it, or is left by the exception
SeqFinish(r, out) ==
    /\ pc' = [pc EXCEPT ![r] = "done"]
    /\ outcome' = [outcome EXCEPT ![r] = out]
    /\ IF out = "raised"
       THEN /\ mainpc' = "crashed"
            /\ exit_code' = 1
            /\ UNCHANGED <<results, successful, failed>>
       ELSE /\ results' = [results EXCEPT ![r] = <<out = "True", r>>]
            /\ successful' = successful + (IF out = "True" THEN 1 ELSE 0)
            /\ failed' = failed + (IF out = "True" THEN 0 ELSE 1)
            /\ UNCHANGED <<mainpc, exit_code>>

\* main up to the download loop: listing, --list, --repo, the size prompt
SeqList ==
    /\ script = "download_deepseek_repos"
    /\ mainpc = "list"
    /\ \/ \* get_deepseek_repos: the request failed, sys.exit(1)
          /\ listing' = "failed"
          /\ mainpc' = "exit"
          /\ exit_code' = listing_failed(script, "failed")
          /\ pc' = pc
       \/ \* --list prints the table and returns
          /\ args.list
          /\ listing' = "listed"
          /\ mainpc' = "exit"
          /\ exit_code' = 0
          /\ pc' = pc
       \/ \* no --repo matches, or the prompt is not answered 'y'
          /\ ~args.list
          /\ listing' = "listed"
          /\ mainpc' = "exit"
          /\ exit_code' = 0
          /\ pc' = pc
       \/ \E selected \in SUBSET Repos \ {{}} :
          /\ ~args.list
          /\ listing' = "listed"
          /\ mainpc' = "loop"
          /\ exit_code' = exit_code
          /\ pc' = [r \in Repos |-> IF r \in selected THEN "queued" ELSE "idle"]
    /\ UNCHANGED <<script, args, run, files, results, prev, temp_path, temp_dir, created,
                   outcome, ops, collected, successful, failed, lfs_repos, pathVars, toolVars, delVars, exVars>>

\* download_repo up to the skip of an existing archive
SeqStart(r) ==
    /\ script = "download_deepseek_repos"
    /\ mainpc = "loop"
    /\ pc[r] = "queued"
    /\ \A q \in Repos : q # r => (~running(q) /\ (Index(q) < Index(r) => pc[q] # "queued"))
    /\ IF exists(files, output_path(r)) /\ ~args.force
       THEN SeqFinish(r, "True")
       ELSE /\ pc' = [pc EXCEPT ![r] = "request"]
            /\ UNCHANGED <<outcome, results, successful, failed, mainpc, exit_code>>
    /\ UNCHANGED <<script, args, listing, run, files, prev, temp_path, temp_dir, created, ops,
                   collected, lfs_repos, pathVars, toolVars, delVars, exVars>>

\* requests.get, raise_for_status and the opening of the temporary file
SeqRequest(r) ==
    /\ script = "download_deepseek_repos"
    /\ mainpc = "loop"
    /\ pc[r] = "request"
    /\ Did(r, "request")
    /\ \/ /\ files' = write(files, temp_file(r), [kind |-> "partial"])
          /\ pc' = [pc EXCEPT ![r] = "write"]
          /\ UNCHANGED <<outcome, results, successful, failed, mainpc, exit_code>>
       \/ \* the request failed: the except branch reads temp_path, which is not
          \* bound yet, and the UnboundLocalError leaves download_repo
          /\ files' = files
          /\ SeqFinish(r, "raised")
    /\ UNCHANGED <<script, args, listing, run, prev, temp_path, temp_dir, created, collected,
                   lfs_repos, pathVars, toolVars, delVars, exVars>>

\* the body is written to the temporary file chunk by chunk
SeqWrite(r) ==
    /\ script = "download_deepseek_repos"
    /\ mainpc = "loop"
    /\ pc[r] = "write"
    /\ \/ /\ files' = write(files, temp_file(r), [kind |-> "tar", run |-> run])
          /\ pc' = [pc EXCEPT ![r] = "replace"]
          /\ UNCHANGED <<outcome, results, successful, failed, mainpc, exit_code>>
       \/ \* the stream breaks: the temporary file is removed
          /\ files' = unlink_if_exists(files, temp_file(r))
          /\ SeqFinish(r, "False")
    /\ UNCHANGED <<script, args, listing, run, prev, temp_path, temp_dir, created, ops, collected,
                   lfs_repos, pathVars, toolVars, delVars, exVars>>

\* os.replace(temp_path, output_path); return True
SeqReplace(r) ==
    /\ script = "download_deepseek_repos"
    /\ mainpc = "loop"
    /\ pc[r] = "replace"
    /\ files' = replace(files, temp_file(r), output_path(r))
    /\ SeqFinish(r, "True")
    /\ UNCHANGED <<script, args, listing, run, prev, temp_path, temp_dir, created, ops, collected,
                   lfs_repos, pathVars, toolVars, delVars, exVars>>

\* the summary; sys.exit(1) when a download failed
SeqSummary ==
    /\ script = "download_deepseek_repos"
    /\ mainpc = "loop"
    /\ \A r \in Repos : pc[r] \in {"idle", "done"}
    /\ mainpc' = "summary"
    /\ exit_code' = summary_exit(script, failed)
    /\ UNCHANGED <<script, args, listing, run, files, pc, results, prev, temp_path, temp_dir, created,
                   outcome, ops, collected, successful, failed, lfs_repos, pathVars, toolVars, delVars, exVars>>

SeqNext ==
    \/ SeqList
    \/ \E r \in Repos : SeqStart(r)
    \/ \E r \in Repos : SeqRequest(r)
    \/ \E r \in Repos : SeqWrite(r)
    \/ \E r \in Repos : SeqReplace(r)
    \/ SeqSummary

DlNext ==
    \/ ParNext
    \/ SeqNext
    \/ Rerun

SpecDownload == DlInit /\ [][DlNext]_vars

(***************************************************************************)
(* Claims about the download scripts (SpecDownload).                       *)
(***************************************************************************)
\* the archive of r, by the script that runs
ArchiveOf(r) == IF script = "download_repos" THEN get_archive_path(r) ELSE output_path(r)

\* a step in which the download_repo call of r starts with its archive present
\* (a queued call that the crashed script never makes is not a call)
StartsWithArchive(r) ==
    /\ pc[r] = "queued"
    /\ pc'[r] \notin {"queued", "idle"}
    /\ exists(files, ArchiveOf(r))

\* that step is the whole call: True, and nothing cloned, bundled, requested or written
IsSkip(r) ==
    /\ pc'[r] = "done"
    /\ outcome'[r] = "True"
    /\ ops'[r] = {}
    /\ files' = files
    /\ temp_path' = temp_path
    /\ temp_dir' = temp_dir

\* a call after one that returned True returns True again
SecondCallSame ==
    \A r \in Repos : (prev[r] = <<TRUE, r>> /\ pc[r] = "done") => outcome[r] = "True"

\* C2 as stated: whenever the archive of an identifier exists, download_repo (of
\* either script) returns True without clone, bundle, request or write, and a
\* second call reports the same status as the first.
C2_AnyCall ==
    /\ []SecondCallSame
    /\ [][\A r \in Repos : StartsWithArchive(r) => IsSkip(r)]_vars

\* C2 amended: the same, for the sequential script only when --force is not given.
C2_UnlessForced ==
    /\ [](~args.force => SecondCallSame)
    /\ [][\A r \in Repos : (StartsWithArchive(r) /\ ~args.force) => IsSkip(r)]_vars

C2_Witness ==
    /\ script = "download_repos"
    /\ run = 2
    /\ \E r \in Repos :
          /\ prev[r] = <<TRUE, r>>
          /\ pc[r] = "done"
          /\ outcome[r] = "True"
          /\ ops[r] = {}

HasMetadata(r) ==
    /\ exists(files, metadata_path(r))
    /\ files[metadata_path(r)].kind = "meta"
    /\ files[metadata_path(r)].repo_id = r

C4_NoHalfDownload ==
    script = "download_repos" =>
        \A r \in Repos :
            /\ outcome[r] \in {"False", "raised"} =>
                   (~exists(files, get_archive_path(r)) /\ ~exists(files, metadata_path(r)))
            /\ mainpc = "summary" =>
                   (exists(files, get_archive_path(r)) <=> exists(files, metadata_path(r)))

C4_Witness ==
    /\ script = "download_repos"
    /\ mainpc = "summary"
    /\ \E r, q \in Repos :
          /\ outcome[r] = "False" /\ "hf_api" \in ops[r]
          /\ outcome[q] = "True" /\ exists(files, get_archive_path(q))

C6_OneResultEach ==
    script = "download_repos" =>
        /\ mainpc # "crashed"
        /\ \A r \in Repos :
              /\ pc[r] = "done" =>
                    (Len(results[r]) = 2 /\ results[r][2] = r /\ results[r][1] \in BOOLEAN)
              /\ outcome[r] = "raised" => results[r] = <<FALSE, r>>
        /\ successful = Cardinality({r \in collected : results[r][1]})
        /\ failed = Cardinality({r \in collected : ~results[r][1]})
        /\ mainpc = "summary" =>
              (collected = Repos /\ successful + failed = Cardinality(Repos))

C6_Witness ==
    /\ script = "download_repos"
    /\ mainpc = "summary"
    /\ successful >= 1
    /\ \E r \in Repos : outcome[r] = "raised" /\ r \in collected
    /\ successful + failed = Cardinality(Repos)

(***************************************************************************)
(* scripts/clean_hf_account.py: delete_all_repos.                          *)
(***************************************************************************)
target_user == "target"

Users == {target_user, "other"}

repo_types == <<"model", "dataset", "space">>

RemotePool ==
    << [owner |-> "target", name |-> "a", type |-> "model"],
       [owner |-> "other",  name |-> "a", type |-> "model"],
       [owner |-> "target", name |-> "b", type |-> "dataset"],
       [owner |-> "target", name |-> "c", type |-> "space"],
       [owner |-> "target", name |-> "b", type |-> "model"] >>

RemoteUniverse == {RemotePool[i] : i \in 1..MaxRemote}

\* the phrases tried at the prompt
YES_DELETE_ALL == <<"Y", "E", "S", "_", "D", "E", "L", "E", "T", "E", "_", "A", "L", "L">>

yes_delete_all == <<"y", "e", "s", "_", "d", "e", "l", "e", "t", "e", "_", "a", "l", "l">>

Phrases ==
    { YES_DELETE_ALL,
      yes_delete_all,
      <<"Y", "e", "s", "_", "D", "e", "l", "e", "t", "e", "_", "A", "l", "l">>,
      <<"Y", "E", "S">>,
      <<"Y", "E", "S", "_", "D", "E", "L", "E", "T", "E", "_", "A", "L", "L", " ">>,
      << >> }

LowerChar(c) ==
    CASE c = "Y" -> "y" [] c = "E" -> "e" [] c = "S" -> "s" [] c = "D" -> "d"
      [] c = "L" -> "l" [] c = "T" -> "t" [] c = "A" -> "a" [] OTHER -> c

\* str.lower()
lower(s) == [i \in DOMAIN s |-> LowerChar(s[i])]

\* mutant: the guard is dropped
confirmed_Always(phrase) == TRUE

\* the guard of delete_all_repos: confirmation.lower() == "yes_delete_all"
confirmed(phrase) == lower(phrase) = yes_delete_all

\* api.list_models / list_datasets / list_spaces (author=user): the (name, type)
\* of [repo.id.split('/')[-1] for repo in repos], in the order of the remote
Listing(rem, user, type) ==
    LET Mine(e) == e \in rem /\ e.owner = user /\ e.type = type
        sel == SelectSeq(RemotePool, Mine)
    IN  [i \in DOMAIN sel |-> <<sel[i].name, type>>]

\* the concatenation of the listings of the types whose listing did not fail
ListAll(rem, user, ok_types) ==
    (IF "model" \in ok_types THEN Listing(rem, user, "model") ELSE << >>)
    \o (IF "dataset" \in ok_types THEN Listing(rem, user, "dataset") ELSE << >>)
    \o (IF "space" \in ok_types THEN Listing(rem, user, "space") ELSE << >>)

\* the repository api.delete_repo(repo_id=name, repo_type=type, token=token)
\* addresses: a repo_id without namespace is taken in the token's namespace
Addressed(entry) == [owner |-> token_user, name |-> entry[1], type |-> entry[2]]

\* mutant: the first failure is already the last
last_attempt_First(n) == TRUE

\* "if attempt == 2: raise" for attempt in range(3)
last_attempt(n) == n = MaxAttempts - 1

DelInit ==
    /\ PathsIdle
    /\ DlIdle
    /\ ExIdle
    /\ ToolsIdle
    /\ confirmation \in Phrases
    /\ token_user \in Users
    /\ remote \in SUBSET RemoteUniverse
    /\ delpc = "confirm"
    /\ total_repos = << >>
    /\ item = 0
    /\ attempt = 0
    /\ calls = << >>
    /\ deleted = {}
    /\ gave_up = {}
    /\ report = "none"

\* the confirmation guard
DelConfirm ==
    /\ delpc = "confirm"
    /\ IF confirmed(confirmation)
       THEN delpc' = "list" /\ report' = report
       ELSE delpc' = "done" /\ report' = "aborted"
    /\ UNCHANGED <<confirmation, token_user, remote, total_repos, item, attempt, calls,
                   deleted, gave_up, pathVars, toolVars, dlVars, exVars>>

\* the listing of the three repository types; a failed listing is skipped
DelList ==
    /\ delpc = "list"
    /\ \E ok_types \in SUBSET {"model", "dataset", "space"} :
         LET found == ListAll(remote, target_user, ok_types)
         IN  /\ total_repos' = found
             /\ calls' = [i \in DOMAIN found |-> 0]
             /\ IF found = << >>
                THEN delpc' = "done" /\ report' = "nothing" /\ item' = item
                ELSE delpc' = "delete" /\ report' = report /\ item' = 1
    /\ attempt' = 0
    /\ UNCHANGED <<confirmation, token_user, remote, deleted, gave_up, pathVars, toolVars, dlVars, exVars>>

\* the entry in work is done: the next one, or the verification
NextItem ==
    /\ attempt' = 0
    /\ IF item < Len(total_repos)
       THEN item' = item + 1 /\ delpc' = delpc
       ELSE item' = item /\ delpc' = "verify"

\* one api.delete_repo call of the retry loop
DelAttempt ==
    /\ delpc = "delete"
    /\ calls' = [calls EXCEPT ![item] = @ + 1]
    /\ \/ \* the call succeeds: break
          /\ Addressed(total_repos[item]) \in remote
          /\ remote' = remote \ {Addressed(total_repos[item])}
          /\ deleted' = deleted \cup {Addressed(total_repos[item])}
          /\ gave_up' = gave_up
          /\ NextItem
       \/ \* the call raises: retry, or after the third attempt report and continue
          /\ UNCHANGED <<remote, deleted>>
          /\ IF last_attempt(attempt)
             THEN gave_up' = gave_up \cup {item} /\ NextItem
             ELSE /\ attempt' = attempt + 1
                  /\ UNCHANGED <<gave_up, item, delpc>>
    /\ UNCHANGED <<confirmation, token_user, total_repos, report, pathVars, toolVars, dlVars, exVars>>

\* the final verification: the types are listed again, failures are passed over
DelVerify ==
    /\ delpc = "verify"
    /\ \E ok_types \in SUBSET {"model", "dataset", "space"} :
         LET remaining == ListAll(remote, target_user, ok_types)
         IN  report' = IF remaining # << >> THEN "warning" ELSE "cleaned"
    /\ delpc' = "done"
    /\ UNCHANGED <<confirmation, token_user, remote, total_repos, item, attempt, calls,
                   deleted, gave_up, pathVars, toolVars, dlVars, exVars>>

DelNext ==
    \/ DelConfirm
    \/ DelList
    \/ DelAttempt
    \/ DelVerify

SpecDelete == DelInit /\ [][DelNext]_vars

(***************************************************************************)
(* The extractors: scripts/extract_repos.py and                            *)
(* scripts/selective_extract.py, on archives that create_archive (or the   *)
(* downloader, which writes no LFS bundle) left in the archive directory.  *)
(***************************************************************************)
Lfs == <<".", "l", "f", "s">>

bundle_name(repo_id) == get_archive_path(repo_id)[2]

\* Path(str(bundle_path) + ".lfs")
lfs_bundle(repo_id) == get_archive_path(repo_id)[2] \o Lfs

dir_name(repo_id) == get_extraction_path(repo_id)[2]

\* mutant: the loops do not look for the extraction directory
already_extracted_Never(dirs, repo_id) == FALSE

\* os.path.exists(extract_path)
already_extracted(dirs, repo_id) == dir_name(repo_id) \in DOMAIN dirs

ExInit ==
    /\ PathsIdle
    /\ DlIdle
    /\ DelIdle
    /\ ToolsIdle
    /\ archives = {}
    /\ extracted = << >>
    /\ exscript = "none"
    /\ exrun = 0
    /\ expc = "idle"
    /\ todo = {}
    /\ error = "none"
    /\ ex_successful = 0
    /\ ex_failed = 0
    /\ ex_skipped = 0
    /\ not_found = 0
    /\ git_runs = 0
    /\ extractions = [d \in {dir_name(r) : r \in Repos} |-> 0]

BetweenRuns == expc \in {"idle", "summary", "exit", "crashed"}

\* scripts/common.py create_archive: the main bundle, then the LFS bundle
CreateArchive(r) ==
    /\ BetweenRuns
    /\ lfs_bundle(r) \notin archives
    /\ \/ \* git bundle create fails
          archives' = archives
       \/ \* git lfs bundle create fails: the main bundle stays
          archives' = archives \cup {bundle_name(r)}
       \/ archives' = archives \cup {bundle_name(r), lfs_bundle(r)}
    /\ UNCHANGED <<extracted, exscript, exrun, expc, todo, error, ex_successful, ex_failed,
                   ex_skipped, not_found, git_runs, extractions, pathVars, toolVars, dlVars, delVars>>

StartRun(name, work) ==
    /\ BetweenRuns
    /\ exrun < MaxRuns
    /\ exrun' = exrun + 1
    /\ exscript' = name
    /\ todo' = work
    /\ error' = "none"
    /\ ex_successful' = 0
    /\ ex_failed' = 0
    /\ ex_skipped' = 0
    /\ not_found' = 0

\* extract_repos.main up to its loop
ExtractReposStart ==
    /\ StartRun("extract_repos", get_downloaded_repos(archives))
    /\ expc' = IF get_downloaded_repos(archives) = {} THEN "exit" ELSE "loop"
    /\ UNCHANGED <<archives, extracted, git_runs, extractions, pathVars, toolVars, dlVars, delVars>>

\* one pass of the loop of extract_repos.main
ExtractReposStep(repo_id) ==
    /\ exscript = "extract_repos"
    /\ expc = "loop"
    /\ repo_id \in todo
    /\ todo' = todo \ {repo_id}
    /\ IF already_extracted(extracted, repo_id)
       THEN /\ ex_skipped' = ex_skipped + 1
            /\ UNCHANGED <<extracted, ex_successful, ex_failed, git_runs, extractions>>
       ELSE /\ git_runs' = git_runs + 1
            /\ ex_skipped' = ex_skipped
            /\ \/ \* git clone succeeds
                  /\ extracted' = write(extracted, dir_name(repo_id), "tree")
                  /\ extractions' = [extractions EXCEPT ![dir_name(repo_id)] = @ + 1]
                  /\ ex_successful' = ex_successful + 1
                  /\ ex_failed' = ex_failed
               \/ \* git clone fails; a directory it left is removed with os.rmdir
                  /\ \E left \in BOOLEAN :
                       extracted' = LET after == IF left
                                                 THEN write(extracted, dir_name(repo_id), "empty")
                                                 ELSE extracted
                                    IN  unlink_if_exists(after, dir_name(repo_id))
                  /\ ex_failed' = ex_failed + 1
                  /\ UNCHANGED <<ex_successful, extractions>>
    /\ UNCHANGED <<archives, exscript, exrun, expc, error, not_found, pathVars, toolVars, dlVars, delVars>>

\* selective_extract.main with repository arguments, up to the loop
SelectiveStart ==
    /\ \E repo_ids \in SUBSET Repos \ {{}} : StartRun("selective_extract", repo_ids)
    /\ expc' = "loop"
    /\ UNCHANGED <<archives, extracted, git_runs, extractions, pathVars, toolVars, dlVars, delVars>>

\* the run is left by an exception
Raise(exception) ==
    /\ expc' = "crashed"
    /\ error' = exception

\* one pass of the loop of extract_selected_repos, extract_from_bundle included
SelectiveStep(repo_id) ==
    /\ exscript = "selective_extract"
    /\ expc = "loop"
    /\ repo_id \in todo
    /\ todo' = todo \ {repo_id}
    /\ IF Slug(repo_id) \notin get_downloaded_stems(archives)
       THEN /\ not_found' = not_found + 1
            /\ UNCHANGED <<extracted, ex_successful, ex_failed, ex_skipped, git_runs,
                           extractions, expc, error>>
       ELSE IF already_extracted(extracted, repo_id)
       THEN /\ ex_skipped' = ex_skipped + 1
            /\ UNCHANGED <<extracted, ex_successful, ex_failed, not_found, git_runs,
                           extractions, expc, error>>
       ELSE /\ UNCHANGED <<ex_skipped, not_found, ex_failed>>
            /\ IF lfs_bundle(repo_id) \notin archives
               THEN \* target_dir.mkdir(), then FileNotFoundError
                    /\ extracted' = write(extracted, dir_name(repo_id), "empty")
                    /\ Raise("FileNotFoundError")
                    /\ UNCHANGED <<ex_successful, git_runs, extractions>>
               ELSE \/ \* git clone fails
                       /\ extracted' = write(extracted, dir_name(repo_id), "empty")
                       /\ git_runs' = git_runs + 1
                       /\ Raise("CalledProcessError")
                       /\ UNCHANGED <<ex_successful, extractions>>
                    \/ \* git lfs bundle import fails
                       /\ extracted' = write(extracted, dir_name(repo_id), "cloned")
                       /\ git_runs' = git_runs + 2
                       /\ extractions' = [extractions EXCEPT ![dir_name(repo_id)] = @ + 1]
                       /\ Raise("CalledProcessError")
                       /\ UNCHANGED ex_successful
                    \/ \* git lfs checkout fails
                       /\ extracted' = write(extracted, dir_name(repo_id), "cloned")
                       /\ git_runs' = git_runs + 3
                       /\ extractions' = [extractions EXCEPT ![dir_name(repo_id)] = @ + 1]
                       /\ Raise("CalledProcessError")
                       /\ UNCHANGED ex_successful
                    \/ \* extract_from_bundle returns True
                       /\ extracted' = write(extracted, dir_name(repo_id), "tree")
                       /\ git_runs' = git_runs + 3
                       /\ extractions' = [extractions EXCEPT ![dir_name(repo_id)] = @ + 1]
                       /\ ex_successful' = ex_successful + 1
                       /\ UNCHANGED <<expc, error>>
    /\ UNCHANGED <<archives, exscript, exrun, pathVars, toolVars, dlVars, delVars>>

\* "Extraction complete!" and the counts, of either script
ExSummary ==
    /\ expc = "loop"
    /\ todo = {}
    /\ expc' = "summary"
    /\ UNCHANGED <<archives, extracted, exscript, exrun, todo, error, ex_successful, ex_failed,
                   ex_skipped, not_found, git_runs, extractions, pathVars, toolVars, dlVars, delVars>>

ExNext ==
    \/ \E r \in Repos : CreateArchive(r)
    \/ ExtractReposStart
    \/ \E repo_id \in todo : ExtractReposStep(repo_id)
    \/ SelectiveStart
    \/ \E repo_id \in todo : SelectiveStep(repo_id)
    \/ ExSummary

SpecExtract == ExInit /\ [][ExNext]_vars

(***************************************************************************)
(* Claims about the path resolver (SpecPaths).                             *)
(***************************************************************************)
NoUnderscore(repo_id) == \A i \in DOMAIN repo_id : repo_id[i] # "_"

BothStored == stored = {1, 2} /\ ids[1] # ids[2]

DistinctPaths ==
    /\ Cardinality(names) = 2
    /\ get_archive_path(ids[1]) # get_archive_path(ids[2])
    /\ get_extraction_path(ids[1]) # get_extraction_path(ids[2])

\* C7 as stated: any two distinct identifiers owner/name have distinct archive
\* paths and distinct extraction paths.
C7_AnyTwoIdentifiers == BothStored => DistinctPaths

\* C7 amended: two distinct identifiers of the same owner (a download run lists
\* the models of one author) have distinct archive and extraction paths, so
\* their archives are two files.
C7_SameOwner == (BothStored /\ Owner(ids[1]) = Owner(ids[2])) => DistinctPaths

C7_Witness ==
    /\ BothStored
    /\ Owner(ids[1]) = Owner(ids[2])
    /\ ~NoUnderscore(ids[1])
    /\ ~NoUnderscore(ids[2])
    /\ DistinctPaths

\* C8 as stated: for an identifier without underscore whose archive is stored,
\* get_downloaded_repos of either RepoManager returns that identifier.
C8_BothManagers ==
    listed # << >> =>
        \A i \in stored : NoUnderscore(ids[i]) =>
            ids[i] \in listed[1] /\ ids[i] \in stems[1]

\* C8 amended: for an identifier without underscore and without the text
\* ".bundle" whose archive is stored, utils.common.RepoManager's
\* get_downloaded_repos returns that identifier (and only it, when it is the
\* only archive); scripts.common.RepoManager's returns its slug instead.
C8_RoundTrip ==
    listed # << >> =>
        \A i \in stored : (NoUnderscore(ids[i]) /\ ~Contains(ids[i], Bundle)) =>
            /\ ids[i] \in listed[1]
            /\ stored = {i} => listed[1] = {ids[i]}
            /\ Slug(ids[i]) \in stems[1]
            /\ ids[i] \notin stems[1]

C8_Witness ==
    /\ listed # << >>
    /\ stored = {1}
    /\ NoUnderscore(ids[1])
    /\ ~Contains(ids[1], Bundle)
    /\ listed[1] = {ids[1]}

(***************************************************************************)
(* Claims about delete_all_repos (SpecDelete).                             *)
(***************************************************************************)
DeleteCalls == \E i \in DOMAIN calls : calls[i] > 0

\* C1 as stated: no delete_repo call is made for any phrase other than
\* 'YES_DELETE_ALL' itself, phrases that differ from it in letter case included.
C1_ExactPhrase == confirmation # YES_DELETE_ALL => (~DeleteCalls /\ deleted = {})

\* C1 amended: no delete_repo call is made for any phrase whose lower-cased
\* form is not 'yes_delete_all'; such a call returns after the abort notice.
C1_CaseInsensitive ==
    lower(confirmation) # yes_delete_all =>
        /\ ~DeleteCalls
        /\ deleted = {}
        /\ delpc \in {"confirm", "done"}
        /\ delpc = "done" => report = "aborted"

C1_Witness ==
    /\ confirmation = <<"Y", "E", "S">>
    /\ remote # {}
    /\ delpc = "done"
    /\ report = "aborted"
    /\ ~DeleteCalls

(***************************************************************************)
(* Claims about the extractors (SpecExtract).                              *)
(***************************************************************************)
\* a pass of either loop over an identifier whose extraction directory exists
PassOverExtracted(repo_id) ==
    /\ expc = "loop"
    /\ repo_id \in todo
    /\ todo' = todo \ {repo_id}
    /\ dir_name(repo_id) \in DOMAIN extracted

C10_MissingLfsIsPerItem ==
    exscript = "selective_extract" => error # "FileNotFoundError"

\* C11: an extraction directory exists only if the extraction of its repository
\* completed: no directory that a later run takes as already extracted is
\* left by a failed extraction (missing LFS bundle, failed git command).
C11_DirectoryMeansExtracted ==
    \A d \in DOMAIN extracted : extracted[d] = "tree"

\* C18: for each listed repository at least one and at most 3 delete_repo calls
\* are made; calls are made only for the entry in work and only while all its
\* earlier calls failed (it stops at the first success); after the third failure
\* the failure is logged and the loop moves on, so the run reaches every entry.
C18_BoundedRetries ==
    /\ [](\A i \in DOMAIN calls :
            /\ calls[i] <= 3
            /\ (i < item \/ delpc \in {"verify", "done"}) => calls[i] >= 1
            /\ i \in gave_up => calls[i] = 3
            /\ (i > item /\ delpc = "delete") => calls[i] = 0)
    /\ [][\A i \in DOMAIN calls :
             calls'[i] # calls[i] =>
                /\ delpc = "delete" /\ i = item
                /\ calls'[i] = calls[i] + 1
                /\ attempt = calls[i]]_vars

C18_Witness ==
    /\ delpc = "done"
    /\ \E i \in DOMAIN calls : i \in gave_up /\ i < Len(total_repos) /\ calls[i + 1] = 2

\* C19: a confirmed run reports 'Account fully cleaned' only if no repository
\* of the owner remains on the remote.
C19_CleanedMeansEmpty ==
    report = "cleaned" => \A e \in remote : e.owner # target_user

(***************************************************************************)
(* scripts/verify_repos.py and scripts/verify_archives.py over an archive  *)
(* directory.                                                              *)
(***************************************************************************)
\* repositories whose archives the directory may hold: the listed ones and one
\* whose name holds the text ".bundle"
VerifyPool == Repos \cup {<<"d", "/", "a">> \o Bundle}

\* what the directory holds of one repository
Holdings ==
    {h \in [bundle : BOOLEAN, ok : BOOLEAN, lfs : BOOLEAN, meta : BOOLEAN] :
        ~h.bundle => (~h.ok /\ ~h.lfs /\ ~h.meta)}

\* Path(str(bundle_path) + ".lfs") of a path
lfs_path(bundle_path) == <<bundle_path[1], bundle_path[2] \o Lfs>>

\* the archive directory with the given holdings
Directory(h) ==
    LET bundles == {get_archive_path(r) : r \in {q \in VerifyPool : h[q].bundle}}
        good == {get_archive_path(r) : r \in {q \in VerifyPool : h[q].ok}}
        lfs == {lfs_path(get_archive_path(r)) : r \in {q \in VerifyPool : h[q].lfs}}
        meta == {metadata_path(r) : r \in {q \in VerifyPool : h[q].meta}}
    IN  [p \in bundles \cup lfs \cup meta |-> [ok |-> p \notin bundles \/ p \in good]]

\* os.listdir(dir)
listdir(fs, dir) == {p[2] : p \in {q \in DOMAIN fs : q[1] = dir}}

\* the entry of utils.common get_downloaded_repos for one file name
repo_id_of(f) == CHOOSE repo_id \in get_downloaded_repos({f}) : TRUE

\* verify_bundle: git bundle verify of the file
verify_bundle(fs, bundle_path) == exists(fs, bundle_path) /\ fs[bundle_path].ok

\* mutant: the bundle is verified without looking whether it exists
verify_repository_NoExistsTest(fs, repo_id) ==
    LET is_valid == verify_bundle(fs, get_archive_path(repo_id))
    IN  [valid_bundle |-> is_valid, status |-> IF is_valid THEN "valid" ELSE "invalid"]

verify_repository(fs, repo_id) ==
    LET bundle_path == get_archive_path(repo_id)
        is_valid == verify_bundle(fs, bundle_path)
    IN  IF ~exists(fs, bundle_path)
        THEN [valid_bundle |-> FALSE, status |-> "missing"]
        ELSE [valid_bundle |-> is_valid, status |-> IF is_valid THEN "valid" ELSE "invalid"]

\* bundle.with_suffix(".bundle.lfs")
with_suffix_bundle_lfs(f) == Stem(f) \o Bundle \o Lfs

VerInit ==
    /\ PathsIdle
    /\ DlIdle
    /\ DelIdle
    /\ ExIdle
    /\ MirIdle
    /\ SizeIdle
    /\ \E h \in [VerifyPool -> Holdings] : vdir = Directory(h)
    /\ vscript = "none"
    /\ vpc = "idle"
    /\ vtodo = {}
    /\ vresults = << >>
    /\ vlog = << >>
    /\ va_missing = {}
    /\ va_report = "none"

\* verify_repos.main up to its loop
VerifyReposStart ==
    /\ vpc = "idle"
    /\ vscript' = "verify_repos"
    /\ vtodo' = {f \in listdir(vdir, "archives") : EndsWith(f, Bundle)}
    /\ vpc' = IF vtodo' = {} THEN "exit" ELSE "loop"
    /\ vresults' = [valid |-> << >>, invalid |-> << >>, missing |-> << >>, lfs_repos |-> << >>]
    /\ UNCHANGED <<vdir, vlog, va_missing, va_report, pathVars, dlVars, delVars, exVars, mirVars, sizeVars>>

\* one pass of the loop of verify_repos.main, for the entry made from file f
VerifyReposStep(f) ==
    /\ vscript = "verify_repos"
    /\ vpc = "loop"
    /\ f \in vtodo
    /\ vtodo' = vtodo \ {f}
    /\ LET repo_id == repo_id_of(f)
           verification == verify_repository(vdir, repo_id)
       IN  /\ vlog' = Append(vlog, [repo_id |-> repo_id, verification |-> verification])
           /\ vresults' =
                IF verification.status = "missing"
                THEN [vresults EXCEPT !.missing = Append(@, repo_id)]
                ELSE IF verification.valid_bundle
                THEN [vresults EXCEPT !.valid = Append(@, repo_id),
                                      !.lfs_repos = Append(@, repo_id)]
                ELSE [vresults EXCEPT !.invalid = Append(@, repo_id)]
    /\ UNCHANGED <<vdir, vscript, vpc, va_missing, va_report, pathVars, dlVars, delVars, exVars, mirVars, sizeVars>>

\* the report of verify_repos.main; the LFS summary opens the metadata file of
\* every entry of lfs_repos
VerifyReposSummary ==
    /\ vscript = "verify_repos"
    /\ vpc = "loop"
    /\ vtodo = {}
    /\ vpc' = IF \E i \in DOMAIN vresults.lfs_repos :
                    ~exists(vdir, metadata_path(vresults.lfs_repos[i]))
              THEN "crashed"
              ELSE "summary"
    /\ UNCHANGED <<vdir, vscript, vtodo, vresults, vlog, va_missing, va_report,
                   pathVars, dlVars, delVars, exVars, mirVars, sizeVars>>

\* verify_archives.verify_archives
VerifyArchives ==
    /\ vpc = "idle"
    /\ vscript' = "verify_archives"
    /\ va_missing' = {f \in listdir(vdir, "archives") :
                         /\ EndsWith(f, Bundle)
                         /\ ~exists(vdir, <<"archives", with_suffix_bundle_lfs(f)>>)}
    /\ va_report' = IF va_missing' # {} THEN "failed" ELSE "complete"
    /\ vpc' = "summary"
    /\ UNCHANGED <<vdir, vtodo, vresults, vlog, pathVars, dlVars, delVars, exVars, mirVars, sizeVars>>

VerNext ==
    \/ VerifyReposStart
    \/ \E f \in vtodo : VerifyReposStep(f)
    \/ VerifyReposSummary
    \/ VerifyArchives

SpecVerify == VerInit /\ [][VerNext]_vars

(***************************************************************************)
(* Claims about verification (SpecVerify).                                 *)
(***************************************************************************)
InSeq(x, s) == \E i \in DOMAIN s : s[i] = x

\* the verdict agrees with the directory
Classified(fs, repo_id, v) ==
    /\ v.status = "missing" <=> ~exists(fs, get_archive_path(repo_id))
    /\ v.status = "invalid" => (exists(fs, get_archive_path(repo_id))
                                /\ ~verify_bundle(fs, get_archive_path(repo_id)))
    /\ v.status = "valid" => exists(fs, get_archive_path(repo_id))

\* C12: verify_repository says 'missing' exactly for a bundle file that does not
\* exist and 'invalid' only for an existing bundle that fails git bundle verify;
\* a nonexistent archive is never 'invalid' or 'valid'; the run files every
\* repository under exactly one of valid, invalid, missing.
C12_MissingIffAbsent ==
    vscript = "verify_repos" =>
       /\ \A repo_id \in VerifyPool :
             Classified(vdir, repo_id, verify_repository(vdir, repo_id))
       /\ \A i \in DOMAIN vlog :
             /\ Classified(vdir, vlog[i].repo_id, vlog[i].verification)
             /\ InSeq(vlog[i].repo_id, vresults.missing)
                  <=> vlog[i].verification.status = "missing"
             /\ InSeq(vlog[i].repo_id, vresults.invalid)
                  <=> vlog[i].verification.status = "invalid"
             /\ InSeq(vlog[i].repo_id, vresults.valid)
                  <=> vlog[i].verification.status = "valid"
       /\ Len(vresults.valid) + Len(vresults.invalid) + Len(vresults.missing) = Len(vlog)

C12_Witness ==
    /\ vscript = "verify_repos"
    /\ vpc \in {"summary", "crashed"}
    /\ vresults.missing # << >>
    /\ vresults.invalid # << >>

\* C13: an archive whose LFS bundle (<archive>.lfs) is absent is reported as
\* missing its LFS bundle and is never counted as a valid LFS-ready repository.
C13_NoLfsNeverLfsReady ==
    /\ vscript = "verify_repos" =>
          \A i \in DOMAIN vresults.lfs_repos :
             exists(vdir, lfs_path(get_archive_path(vresults.lfs_repos[i])))
    /\ vscript = "verify_archives" =>
          \A f \in listdir(vdir, "archives") :
             (EndsWith(f, Bundle) /\ ~exists(vdir, <<"archives", f \o Lfs>>))
                => (f \in va_missing /\ va_report = "failed")

(***************************************************************************)
(* scripts/mirror_repos.py: the target account is cleaned, then every      *)
(* model of the source author is created there and mirrored into it.       *)
(***************************************************************************)
\* --target-user
mirror_target_user == <<"t">>

\* source_repo.split('/')[-1]
RECURSIVE split_last(_)
split_last(repo_id) ==
    IF \A i \in DOMAIN repo_id : repo_id[i] # "/" THEN repo_id
    ELSE split_last(Tail(repo_id))

\* f"{target_user}/{source_repo.split('/')[-1]}"
target_repo(source_repo) == mirror_target_user \o <<"/">> \o split_last(source_repo)

\* a repository of the target account that no source repository is named like
Unrelated == mirror_target_user \o <<"/">> \o <<"z">>

\* what the target account may hold before the run
TargetUniverse ==
    {<<"model", target_repo(r)>> : r \in Repos}
       \cup {<<"model", Unrelated>>, <<"dataset", Unrelated>>}

\* mutant: the listing to clean is not restricted to models
list_models_AnyType(account, author) == DOMAIN account

\* api.list_models(author=target_user): the models of the account
list_models(account, author) ==
    {k \in DOMAIN account : k[1] = "model" /\ Owner(k[2]) = author}

\* mutant: the refs are pushed before the LFS objects
next_step_RefsFirst(step) ==
    CASE step = "create_repo" -> "clone"
      [] step = "clone" -> "lfs_install"
      [] step = "lfs_install" -> "lfs_fetch"
      [] step = "lfs_fetch" -> "remote_add"
      [] step = "remote_add" -> "push"
      [] step = "push" -> "lfs_push"
      [] step = "lfs_push" -> "end"

\* the statement that follows a step that did not raise
next_step(step) ==
    CASE step = "create_repo" -> "clone"
      [] step = "clone" -> "lfs_install"
      [] step = "lfs_install" -> "lfs_fetch"
      [] step = "lfs_fetch" -> "remote_add"
      [] step = "remote_add" -> "lfs_push"
      [] step = "lfs_push" -> "push"
      [] step = "push" -> "end"

\* mutant: an exception of the loop body ends the run
after_failure_Abort(index) == [pc |-> "crashed", index |-> index]

\* except Exception: print and continue
after_failure(index) == [pc |-> "mirror", index |-> index + 1]

\* mutant: the push leaves the refs of the target as they were
mirror_push_Nothing(account, t, refs) == account

\* git push target --mirror: the refs of the target become those of the clone
mirror_push(account, t, refs) == [account EXCEPT ![<<"model", t>>].refs = refs]

\* the refs of a source repository
refs_of(source_repo) == source_repo

MirInit ==
    /\ PathsIdle
    /\ DlIdle
    /\ DelIdle
    /\ ExIdle
    /\ VerIdle
    /\ SizeIdle
    /\ \E held \in SUBSET TargetUniverse :
          mtarget0 = [k \in held |-> [refs |-> <<"old">>, lfs |-> FALSE]]
    /\ mtarget = mtarget0
    /\ mpc = "idle"
    /\ mlisted = << >>
    /\ mclean = {}
    /\ mdeleted = {}
    /\ mindex = 0
    /\ mstep = "none"
    /\ mtrace = [r \in Repos |-> << >>]
    /\ mlog = {}

\* mirror_repos: models = api.list_models(author=source_user)
MirList ==
    /\ mpc = "idle"
    /\ \/ /\ mlisted' = [i \in 1..MaxRepos |-> RepoPool[i]]
          /\ mpc' = "clean_list"
       \/ \* the request raises: nothing catches it
          /\ mpc' = "crashed"
          /\ UNCHANGED mlisted
    /\ UNCHANGED <<mtarget0, mtarget, mclean, mdeleted, mindex, mstep, mtrace, mlog,
                   pathVars, dlVars, delVars, exVars, verVars, sizeVars>>

\* clean_existing_repos: the listing of the target account
MirCleanList ==
    /\ mpc = "clean_list"
    /\ mpc' = "clean"
    /\ \/ mclean' = list_models(mtarget, mirror_target_user)
       \/ \* "Error listing repositories"
          mclean' = {}
    /\ UNCHANGED <<mtarget0, mtarget, mlisted, mdeleted, mindex, mstep, mtrace, mlog,
                   pathVars, dlVars, delVars, exVars, verVars, sizeVars>>

\* clean_existing_repos: one pass of its loop
MirClean(k) ==
    /\ mpc = "clean"
    /\ k \in mclean
    /\ mclean' = mclean \ {k}
    /\ \/ /\ mtarget' = unlink(mtarget, k)
          /\ mdeleted' = mdeleted \cup {k}
       \/ \* "Failed to delete"
          UNCHANGED <<mtarget, mdeleted>>
    /\ UNCHANGED <<mtarget0, mpc, mlisted, mindex, mstep, mtrace, mlog,
                   pathVars, dlVars, delVars, exVars, verVars, sizeVars>>

\* "Starting mirror process..."
MirStartLoop ==
    /\ mpc = "clean"
    /\ mclean = {}
    /\ mpc' = "mirror"
    /\ mindex' = 1
    /\ mstep' = "create_repo"
    /\ UNCHANGED <<mtarget0, mtarget, mlisted, mclean, mdeleted, mtrace, mlog,
                   pathVars, dlVars, delVars, exVars, verVars, sizeVars>>

\* the step did not raise
Proceed(step) ==
    /\ mtrace' = [mtrace EXCEPT ![mlisted[mindex]] = Append(@, [step |-> step, ok |-> TRUE])]
    /\ IF next_step(step) = "end"
       THEN /\ mindex' = mindex + 1
            /\ mstep' = "create_repo"
       ELSE /\ mindex' = mindex
            /\ mstep' = next_step(step)
    /\ UNCHANGED <<mpc, mlog>>

\* the step raised: "Failed to mirror"
Failed(step) ==
    /\ mtrace' = [mtrace EXCEPT ![mlisted[mindex]] = Append(@, [step |-> step, ok |-> FALSE])]
    /\ mlog' = mlog \cup {mlisted[mindex]}
    /\ mpc' = after_failure(mindex).pc
    /\ mindex' = after_failure(mindex).index
    /\ mstep' = "create_repo"
    /\ UNCHANGED mtarget

AtStep(step) ==
    /\ mpc = "mirror"
    /\ mindex \in 1..Len(mlisted)
    /\ mstep = step

\* api.create_repo(repo_id=target_repo, ...): refused for a repository that exists
MirCreate ==
    /\ AtStep("create_repo")
    /\ LET k == <<"model", target_repo(mlisted[mindex])>>
       IN  \/ /\ ~exists(mtarget, k)
              /\ mtarget' = write(mtarget, k, [refs |-> << >>, lfs |-> FALSE])
              /\ Proceed("create_repo")
           \/ Failed("create_repo")
    /\ UNCHANGED <<mtarget0, mlisted, mclean, mdeleted, pathVars, dlVars, delVars, exVars, verVars, sizeVars>>

\* a git command of server_side_fork that does not change the target
MirLocal(step) ==
    /\ AtStep(step)
    /\ \/ Proceed(step) /\ UNCHANGED mtarget
       \/ Failed(step)
    /\ UNCHANGED <<mtarget0, mlisted, mclean, mdeleted, pathVars, dlVars, delVars, exVars, verVars, sizeVars>>

\* git clone --bare
MirClone == MirLocal("clone")

\* git lfs install --local
MirLfsInstall == MirLocal("lfs_install")

\* git lfs fetch --all origin
MirLfsFetch == MirLocal("lfs_fetch")

\* git remote add target
MirRemoteAdd == MirLocal("remote_add")

\* git lfs push --all
MirLfsPush ==
    /\ AtStep("lfs_push")
    /\ \/ /\ mtarget' = [mtarget EXCEPT ![<<"model", target_repo(mlisted[mindex])>>].lfs = TRUE]
          /\ Proceed("lfs_push")
       \/ Failed("lfs_push")
    /\ UNCHANGED <<mtarget0, mlisted, mclean, mdeleted, pathVars, dlVars, delVars, exVars, verVars, sizeVars>>

\* git push target --mirror
MirPush ==
    /\ AtStep("push")
    /\ \/ /\ mtarget' = mirror_push(mtarget, target_repo(mlisted[mindex]),
                                    refs_of(mlisted[mindex]))
          /\ Proceed("push")
       \/ Failed("push")
    /\ UNCHANGED <<mtarget0, mlisted, mclean, mdeleted, pathVars, dlVars, delVars, exVars, verVars, sizeVars>>

\* the loop is through the listing
MirDone ==
    /\ mpc = "mirror"
    /\ mindex > Len(mlisted)
    /\ mpc' = "done"
    /\ UNCHANGED <<mtarget0, mtarget, mlisted, mclean, mdeleted, mindex, mstep, mtrace, mlog,
                   pathVars, dlVars, delVars, exVars, verVars, sizeVars>>

MirNext ==
    \/ MirList
    \/ MirCleanList
    \/ \E k \in mclean : MirClean(k)
    \/ MirStartLoop
    \/ MirCreate
    \/ MirClone
    \/ MirLfsInstall
    \/ MirLfsFetch
    \/ MirRemoteAdd
    \/ MirLfsPush
    \/ MirPush
    \/ MirDone

SpecMirror == MirInit /\ [][MirNext]_vars

(***************************************************************************)
(* Claims about the mirror run (SpecMirror).                               *)
(***************************************************************************)
Listed == {mlisted[i] : i \in DOMAIN mlisted}

Steps(r) == [i \in DOMAIN mtrace[r] |-> mtrace[r][i].step]

\* C14: a failure while one source repository is mirrored is logged and the
\* loop goes on: every listed source repository gets its mirror attempt.
C14_EveryoneAttempted ==
    /\ mpc = "crashed" => mlisted = << >>
    /\ mpc = "done" => \A r \in Listed : mtrace[r] # << >>
    /\ \A r \in Listed : (\E i \in DOMAIN mtrace[r] : ~mtrace[r][i].ok) => r \in mlog

C14_Witness ==
    /\ mpc = "done"
    /\ mlog # {}
    /\ \E i \in DOMAIN mlisted :
          /\ i < Len(mlisted)
          /\ mlisted[i] \in mlog
          /\ mtrace[mlisted[i + 1]] # << >>

SameNamed == {<<"model", target_repo(r)>> : r \in Repos}

\* C15 as stated: the only repositories deleted from the target account are
\* those named like a source repository; the others are left untouched.
C15_OnlySameNamed ==
    /\ mdeleted \subseteq SameNamed
    /\ \A k \in DOMAIN mtarget0 \ SameNamed : exists(mtarget, k) /\ mtarget[k] = mtarget0[k]

\* C15 amended: the repositories deleted are models the target account held
\* before the run, whether or not a source repository has their name; what is
\* not a model of the target account is left untouched.
C15_OnlyTargetModels ==
    /\ \A k \in mdeleted : k[1] = "model" /\ k \in DOMAIN mtarget0
    /\ \A k \in DOMAIN mtarget0 : k[1] # "model" => (exists(mtarget, k) /\ mtarget[k] = mtarget0[k])

C15_Witness ==
    /\ mpc = "done"
    /\ <<"model", Unrelated>> \in mdeleted
    /\ <<"dataset", Unrelated>> \in DOMAIN mtarget

\* the order the steps are to have, and the steps of r without git lfs install
ClaimedOrder == <<"create_repo", "clone", "lfs_fetch", "remote_add", "lfs_push", "push">>

NamedSteps(r) == SelectSeq(Steps(r), LAMBDA step : step # "lfs_install")

\* C16: for each mirrored repository the steps run in the order create target
\* repository, bare clone, LFS fetch, add remote, LFS push, push of the refs; a
\* step runs only if every earlier one succeeded; refs are never pushed to a
\* target to which the LFS objects were not pushed first.
C16_StepsInOrder ==
    \A r \in DOMAIN mtrace :
       /\ Len(NamedSteps(r)) <= Len(ClaimedOrder)
       /\ NamedSteps(r) = SubSeq(ClaimedOrder, 1, Len(NamedSteps(r)))
       /\ \A i \in DOMAIN mtrace[r] : i < Len(mtrace[r]) => mtrace[r][i].ok
       /\ \A i \in DOMAIN mtrace[r] :
             mtrace[r][i].step = "push" =>
                \E j \in 1..(i - 1) : mtrace[r][j] = [step |-> "lfs_push", ok |-> TRUE]

C16_Witness ==
    /\ mpc = "done"
    /\ \E r \in Listed : Len(mtrace[r]) = 7 /\ mtrace[r][7] = [step |-> "push", ok |-> TRUE]
    /\ \E r \in Listed : Len(mtrace[r]) \in 2..6 /\ ~mtrace[r][Len(mtrace[r])].ok

\* C17: a target repository that did not exist before the run, and for whose
\* source no remote or git step failed, exists after mirror_repos with the
\* refs of its source repository.
C17_TargetGetsRefs ==
    mpc = "done" =>
       \A r \in Listed :
          (/\ ~exists(mtarget0, <<"model", target_repo(r)>>)
           /\ \A i \in DOMAIN mtrace[r] : mtrace[r][i].ok)
             => /\ exists(mtarget, <<"model", target_repo(r)>>)
                /\ mtarget[<<"model", target_repo(r)>>].refs = refs_of(r)

C17_Witness ==
    /\ mpc = "done"
    /\ \E r \in Listed :
          /\ ~exists(mtarget0, <<"model", target_repo(r)>>)
          /\ \A i \in DOMAIN mtrace[r] : mtrace[r][i].ok
          /\ mtarget[<<"model", target_repo(r)>>].refs = refs_of(r)

(***************************************************************************)
(* scripts/repo_sizes.py, and the listing and the download loop of         *)
(* download_deepseek_repos.py: what --sort orders.                         *)
(***************************************************************************)
\* sizes a repository may have
Sizes == {0, 50, 100}

\* "if total_size > 10" of download_deepseek_repos.main
LargeDownload == 10

\* mutant: reverse is not passed on to the sort
sort_by_size_Ascending(list, reverse) ==
    LET RECURSIVE asc(_)
        asc(l) ==
            IF l = << >> THEN << >>
            ELSE LET x == l[Len(l)]
                     rest == asc(SubSeq(l, 1, Len(l) - 1))
                     Before(y) == y.size <= x.size
                     After(y) == ~Before(y)
                 IN  SelectSeq(rest, Before) \o <<x>> \o SelectSeq(rest, After)
    IN  asc(list)

\* list.sort(key=size, reverse=reverse): stable in both directions
RECURSIVE sort_by_size(_, _)
sort_by_size(list, reverse) ==
    IF list = << >> THEN << >>
    ELSE LET x == list[Len(list)]
             rest == sort_by_size(SubSeq(list, 1, Len(list) - 1), reverse)
             Before(y) == IF reverse THEN y.size >= x.size ELSE y.size <= x.size
             After(y) == ~Before(y)
         IN  SelectSeq(rest, Before) \o <<x>> \o SelectSeq(rest, After)

\* repo_sizes[:args.top] if args.top > 0
top_rows(list, top) ==
    IF top > 0 THEN SubSeq(list, 1, IF top < Len(list) THEN top ELSE Len(list)) ELSE list

RECURSIVE total_size(_)
total_size(list) == IF list = << >> THEN 0 ELSE Head(list).size + total_size(Tail(list))

SizeInit ==
    /\ PathsIdle
    /\ DlIdle
    /\ DelIdle
    /\ ExIdle
    /\ VerIdle
    /\ MirIdle
    /\ \E size \in [1..MaxRepos -> Sizes] :
          sremote = [i \in 1..MaxRepos |-> [modelId |-> RepoPool[i], size |-> size[i]]]
    /\ \/ /\ sscript = "repo_sizes"
          /\ sargs \in [sort : {"asc", "desc"}, list : {TRUE}, top : {0, 1}]
       \/ /\ sscript = "download_deepseek_repos"
          /\ sargs \in [sort : {"asc", "desc"}, list : BOOLEAN, top : {0}]
    /\ spc = "start"
    /\ srepos = << >>
    /\ sfetched = 0
    /\ sshown = << >>
    /\ sprocessed = << >>
    /\ sfailed = 0
    /\ sexit = -1

\* the request for the listing of the author's models, of either script
SizeList ==
    /\ spc = "start"
    /\ \/ /\ spc' = "fetch"
          /\ srepos' = IF sscript = "repo_sizes" THEN << >>
                       ELSE [i \in DOMAIN sremote |-> [modelId |-> sremote[i].modelId, size |-> 0]]
          /\ sexit' = sexit
       \/ \* the request fails: "Error ...", sys.exit(1)
          /\ spc' = "exit"
          /\ sexit' = 1
          /\ UNCHANGED srepos
    /\ UNCHANGED <<sremote, sscript, sargs, sfetched, sshown, sprocessed, sfailed,
                   pathVars, dlVars, delVars, exVars, verVars, mirVars>>

\* repo_sizes.get_deepseek_repo_sizes: one pass of the loop
SizesFetch ==
    /\ sscript = "repo_sizes"
    /\ spc = "fetch"
    /\ sfetched < Len(sremote)
    /\ sfetched' = sfetched + 1
    /\ \/ \* model_info answers: kept if the files have a size
          srepos' = IF sremote[sfetched + 1].size > 0
                    THEN Append(srepos, sremote[sfetched + 1])
                    ELSE srepos
       \/ \* "Error processing"
          srepos' = srepos
    /\ UNCHANGED <<sremote, sscript, sargs, spc, sshown, sprocessed, sfailed, sexit,
                   pathVars, dlVars, delVars, exVars, verVars, mirVars>>

\* repo_sizes: the sort, and main's table
SizesReport ==
    /\ sscript = "repo_sizes"
    /\ spc = "fetch"
    /\ sfetched = Len(sremote)
    /\ srepos' = sort_by_size(srepos, sargs.sort = "desc")
    /\ sshown' = top_rows(srepos', sargs.top)
    /\ spc' = "done"
    /\ sexit' = 0
    /\ UNCHANGED <<sremote, sscript, sargs, sfetched, sprocessed, sfailed,
                   pathVars, dlVars, delVars, exVars, verVars, mirVars>>

\* download_deepseek_repos.get_deepseek_repos: one pass of the size loop
DsFetch ==
    /\ sscript = "download_deepseek_repos"
    /\ spc = "fetch"
    /\ sfetched < Len(sremote)
    /\ sfetched' = sfetched + 1
    /\ \/ \* the detail request answers
          srepos' = [srepos EXCEPT ![sfetched + 1].size = sremote[sfetched + 1].size]
       \/ \* it does not: repo.get('size', 0)
          srepos' = srepos
    /\ UNCHANGED <<sremote, sscript, sargs, spc, sshown, sprocessed, sfailed, sexit,
                   pathVars, dlVars, delVars, exVars, verVars, mirVars>>

\* download_deepseek_repos.main with --list
DsListing ==
    /\ sscript = "download_deepseek_repos"
    /\ spc = "fetch"
    /\ sfetched = Len(sremote)
    /\ sargs.list
    /\ srepos' = sort_by_size(srepos, sargs.sort = "desc")
    /\ sshown' = srepos'
    /\ spc' = "done"
    /\ sexit' = 0
    /\ UNCHANGED <<sremote, sscript, sargs, sfetched, sprocessed, sfailed,
                   pathVars, dlVars, delVars, exVars, verVars, mirVars>>

\* download_deepseek_repos.main without --list: the size warning
DsPrepare ==
    /\ sscript = "download_deepseek_repos"
    /\ spc = "fetch"
    /\ sfetched = Len(sremote)
    /\ ~sargs.list
    /\ \/ /\ spc' = "download"
          /\ sexit' = sexit
       \/ \* "Download cancelled"
          /\ total_size(srepos) > LargeDownload
          /\ spc' = "done"
          /\ sexit' = 0
    /\ UNCHANGED <<sremote, sscript, sargs, srepos, sfetched, sshown, sprocessed, sfailed,
                   pathVars, dlVars, delVars, exVars, verVars, mirVars>>

\* one pass of the download loop
DsDownload ==
    /\ spc = "download"
    /\ Len(sprocessed) < Len(srepos)
    /\ sprocessed' = Append(sprocessed, srepos[Len(sprocessed) + 1].modelId)
    /\ \E ok \in BOOLEAN : sfailed' = IF ok THEN sfailed ELSE sfailed + 1
    /\ UNCHANGED <<sremote, sscript, sargs, spc, srepos, sfetched, sshown, sexit,
                   pathVars, dlVars, delVars, exVars, verVars, mirVars>>

\* "Download Summary"
DsSummary ==
    /\ spc = "download"
    /\ Len(sprocessed) = Len(srepos)
    /\ spc' = "done"
    /\ sexit' = IF sfailed > 0 THEN 1 ELSE 0
    /\ UNCHANGED <<sremote, sscript, sargs, srepos, sfetched, sshown, sprocessed, sfailed,
                   pathVars, dlVars, delVars, exVars, verVars, mirVars>>

SizeNext ==
    \/ SizeList
    \/ SizesFetch
    \/ SizesReport
    \/ DsFetch
    \/ DsListing
    \/ DsPrepare
    \/ DsDownload
    \/ DsSummary

SpecSizes == SizeInit /\ [][SizeNext]_vars

(***************************************************************************)
(* Claims about the size order (SpecSizes).                                *)
(***************************************************************************)
\* the sizes are in the order asked for
InOrder(sizes, order) ==
    \A i, j \in DOMAIN sizes :
       i < j => IF order = "desc" THEN sizes[i] >= sizes[j] ELSE sizes[i] <= sizes[j]

\* the sizes, as the script knows them, of the repositories it downloaded
ProcessedSizes == [i \in DOMAIN sprocessed |-> srepos[i].size]

\* C20 as stated: with 'asc' the repositories are listed and processed in
\* non-decreasing order of size, with 'desc' in non-increasing order.
C20_ListedAndProcessedInOrder ==
    sscript # "none" =>
       /\ InOrder([i \in DOMAIN sshown |-> sshown[i].size], sargs.sort)
       /\ InOrder(ProcessedSizes, sargs.sort)

\* C20 amended: the rows listed are in the order of --sort; the download loop
\* takes the repositories in the order of the remote listing.
C20_ListedInOrder ==
    sscript # "none" =>
       /\ InOrder([i \in DOMAIN sshown |-> sshown[i].size], sargs.sort)
       /\ \A i \in DOMAIN sprocessed : sprocessed[i] = sremote[i].modelId

C20_Witness ==
    /\ spc = "done"
    /\ sargs.sort = "asc"
    /\ sremote[1] = [modelId |-> <<"d", "/", "a">>, size |-> 100]
    /\ sremote[2] = [modelId |-> <<"d", "/", "b">>, size |-> 50]
    /\ Len(sshown) >= 2
    /\ sshown[1] = [modelId |-> <<"d", "/", "b">>, size |-> 50]
    /\ sshown[2] = [modelId |-> <<"d", "/", "a">>, size |-> 100]

(***************************************************************************)
(* Claims about failures of the download scripts (SpecDownload).           *)
(***************************************************************************)
\* no download_repo call was made in this run
NoDownloadAttempted ==
    \A r \in Repos : pc[r] = "idle" /\ outcome[r] = "none" /\ results[r] = << >>

\* C21 as stated: whenever the remote listing failed, the script has ended
\* normally (exit status zero) and has attempted no download
C21_ListingFailureNotFatal ==
    listing = "failed" =>
        /\ mainpc = "exit"
        /\ exit_code = 0
        /\ NoDownloadAttempted

\* C21, amended: after a failed listing no download is attempted in either
\* script; download_repos ends with status zero, download_deepseek_repos
\* ends with status one
C21_ListingFailureEndsRun ==
    listing = "failed" =>
        /\ mainpc = "exit"
        /\ NoDownloadAttempted
        /\ script = "download_repos" => exit_code = 0
        /\ script = "download_deepseek_repos" => exit_code = 1

\* the parallel script met a failed listing in its second run and ended normally
C21_Witness ==
    /\ script = "download_repos"
    /\ listing = "failed"
    /\ run = 2
    /\ mainpc = "exit"
    /\ exit_code = 0

\* C22 as stated: in the sequential script a failed download never raises:
\* download_repo returns False, its temporary file is gone, and main goes on
\* to the remaining repositories (it is never left by an exception)
C22_FailedDownloadReturnsFalse ==
    script = "download_deepseek_repos" =>
        /\ mainpc # "crashed"
        /\ \A r \in Repos :
              /\ outcome[r] # "raised"
              /\ outcome[r] = "False" => ~exists(files, temp_file(r))
              /\ (mainpc = "summary" /\ pc[r] # "idle") => outcome[r] \in {"True", "False"}

\* the run was a fatal start: a dependency is missing or the listing failed
FatalStart == listing \in {"no_git", "failed"}

C26_ArchiveNeverPartial ==
    script = "download_deepseek_repos" =>
        \A r \in Repos :
            /\ exists(files, output_path(r)) => files[output_path(r)].kind = "tar"
            /\ (exists(files, output_path(r)) /\ files[output_path(r)].run = run)
                  => outcome[r] = "True"
            /\ (outcome[r] \in {"False", "raised"} /\ prev[r] # << >> /\ prev[r][1])
                  => (exists(files, output_path(r)) /\ files[output_path(r)].run < run)

\* a forced re-download failed while the body was written, and the archive of
\* the first run is still in place
C26_Witness ==
    /\ script = "download_deepseek_repos"
    /\ args.force
    /\ run = 2
    /\ \E r \in Repos :
          /\ outcome[r] = "False"
          /\ exists(files, output_path(r))
          /\ files[output_path(r)] = [kind |-> "tar", run |-> 1]
          /\ ~exists(files, temp_file(r))

(***************************************************************************)
(* Claims about the listed identifiers (SpecPaths) and about the           *)
(* repositories delete_all_repos addresses (SpecDelete).                   *)
(***************************************************************************)
\* C24 as stated: for every identifier r that get_downloaded_repos returns,
\* get_archive_path(r) is a bundle file present in the archive directory
C24_ListedHaveArchives ==
    listed # << >> =>
        \A r \in listed[1] : get_archive_path(r)[2] \in names

\* C25 as stated: every repository that delete_all_repos deleted belongs to
\* target_user and was in the listing, with the kind it was listed under
C25_DeletedWereListed ==
    \A e \in deleted :
        /\ e.owner = target_user
        /\ \E i \in DOMAIN total_repos :
              total_repos[i] = <<e.name, e.type>>

====
